---- MODULE Spec2Model ----
(***************************************************************************)
(* A model of msal_extensions/libsecret.py: the LibSecretAgent adapter     *)
(* (schema derivation in __init__, save / load / clear) and the trial_run  *)
(* availability probe, running against a secret service that holds items   *)
(* tagged with a collection, a schema name, attributes, a label and a      *)
(* secret.                                                                 *)
(*                                                                         *)
(* Python values: a dict is a function with a finite domain ({} is <<>>),  *)
(* an optional dict argument is NoneArg or Some(d), the value None of a    *)
(* string-typed position (load()'s result, the collection) is the string   *)
(* None, which is no payload and no collection name of the model.          *)
(* Asserts are enabled (the interpreter's default).                        *)
(***************************************************************************)
EXTENDS Naturals, Sequences, FiniteSets, TLC

VARIABLES
    store,       \* the secret service's items, all collections together
    functional,  \* TRUE: the service never raises; FALSE: any call may raise
    last,        \* the latest save/load/clear call on an agent, with its result
    prev,        \* the call before it
    pc,          \* trial_run: each process's position
    caught,      \* trial_run: the exception the except clause caught
    log,         \* trial_run: the log records the run emitted, in order
    calls,       \* trial_run: the agent methods the run called, in order
    outcome,     \* trial_run: how the run ended
    before,      \* trial_run: the store when the run started
    args,        \* constructor: the arguments of LibSecretAgent(...)
    built        \* constructor: the agent it built

vars == <<store, functional, last, prev, pc, caught, log, calls, outcome,
          before, args, built>>

crudVars == <<last, prev>>
trialVars == <<pc, caught, log, calls, outcome, before>>
ctorVars == <<args, built>>

---------------------------------------------------------------------------
(* Python values *)

None == "None"

NoneArg == [isNone |-> TRUE]

Some(d) == [isNone |-> FALSE, val |-> d]

\* `x or {}` for an optional dict x: None and the empty dict are both falsy.
OrEmptyDict(x) == IF x.isNone THEN <<>> ELSE x.val

\* All dicts with keys among K and values among V.
Dicts(K, V) == UNION {[D -> V] : D \in SUBSET K}

STRING_T == "STRING"
INTEGER_T == "INTEGER"
BOOLEAN_T == "BOOLEAN"

SchemaAttributeType == {STRING_T, INTEGER_T, BOOLEAN_T}

---------------------------------------------------------------------------
(* LibSecretAgent.__init__ *)

\* A plausible slip: iterate over the type mapping instead of the attributes.
SchemaTypesOverTypes(attributes, attribute_types) ==
    [k \in DOMAIN OrEmptyDict(attribute_types) |-> OrEmptyDict(attribute_types)[k]]

\* The dict comprehension handed to Secret.Schema.new.
SchemaTypes(attributes, attribute_types) ==
    [k \in DOMAIN attributes |->
        IF k \in DOMAIN OrEmptyDict(attribute_types)
        THEN OrEmptyDict(attribute_types)[k]
        ELSE STRING_T]

\* Secret.Schema.new(name, flags, attribute types)
SchemaNew(name, flags, types) == [name |-> name, flags |-> flags, types |-> types]

LibSecretAgent(schema_name, attributes, label, attribute_types, collection) ==
    [_collection |-> collection,
     _attributes |-> OrEmptyDict(attributes),
     _label      |-> label,
     _schema     |-> SchemaNew(schema_name, "NONE",
                        SchemaTypes(OrEmptyDict(attributes), attribute_types))]

---------------------------------------------------------------------------
(* The secret service, as the three calls of the adapter use it.  An item  *)
(* lives in one collection and carries the schema name, the attributes,    *)
(* the label and the secret.  store replaces the item with the same schema *)
(* name and attributes in the target collection; lookup and clear take no  *)
(* collection and search every collection; lookup returns one of the       *)
(* matching items' secrets, clear removes all of them.                     *)

DefaultCollection == "default"

Item(collection, schema_name, attributes, label, secret) ==
    [collection |-> collection, schema |-> schema_name,
     attributes |-> attributes, label |-> label, secret |-> secret]

\* The items of st that the filter (schema, attributes) selects.
Matching(st, schema, attributes) ==
    {i \in st : i.schema = schema.name /\ i.attributes = attributes}

\* Secret.password_store_sync(schema, attributes, collection, label, password, None):
\* the store after the call and the boolean it returns.
password_store_sync(st, schema, attributes, collection, label, password) ==
    LET target == IF collection = None THEN DefaultCollection ELSE collection
        replaced == {i \in Matching(st, schema, attributes) : i.collection = target}
    IN  [store  |-> (st \ replaced)
                        \cup {Item(target, schema.name, attributes, label, password)},
         stored |-> TRUE]

\* Secret.password_lookup_sync(schema, attributes, None): the values the call
\* may return; None when nothing matches.
password_lookup_sync(st, schema, attributes) ==
    IF Matching(st, schema, attributes) = {}
    THEN {None}
    ELSE {i.secret : i \in Matching(st, schema, attributes)}

\* Secret.password_clear_sync(schema, attributes, None): the store after the
\* call and the boolean it returns.
password_clear_sync(st, schema, attributes) ==
    [store   |-> st \ Matching(st, schema, attributes),
     removed |-> Matching(st, schema, attributes) # {}]

---------------------------------------------------------------------------
(* LibSecretAgent.save / load / clear *)

\* The store after self.save(data) and the boolean it returns.
save(self, data, st) ==
    password_store_sync(st, self._schema, self._attributes, self._collection,
                        self._label, data)

\* A slip: the lookup also asks for the agent's label.
loadByLabel(self, st) ==
    LET found == {i \in Matching(st, self._schema, self._attributes) :
                     i.label = self._label}
    IN  IF found = {} THEN {None} ELSE {i.secret : i \in found}

\* The values self.load() may return.
load(self, st) ==
    password_lookup_sync(st, self._schema, self._attributes)

\* A slip: clear() reports success whether or not anything was removed.
clearAlwaysTrue(self, st) ==
    [store   |-> password_clear_sync(st, self._schema, self._attributes).store,
     removed |-> TRUE]

\* A slip: clear() removes only the items of the agent's own collection.
clearOwnCollection(self, st) ==
    LET target == IF self._collection = None THEN DefaultCollection
                  ELSE self._collection
        gone == {i \in Matching(st, self._schema, self._attributes) :
                    i.collection = target}
    IN  [store |-> st \ gone, removed |-> gone # {}]

\* A slip: clear() removes every item of the schema, whatever its attributes.
clearWholeSchema(self, st) ==
    LET gone == {i \in st : i.schema = self._schema.name}
    IN  [store |-> st \ gone, removed |-> gone # {}]

\* The store after self.clear() and the boolean it returns.
clear(self, st) ==
    password_clear_sync(st, self._schema, self._attributes)

---------------------------------------------------------------------------
(* Callers: agents over one service, each call a blocking round trip. *)

Payloads == {"x", "y"}

CacheAttributes == [attr1 |-> "foo", attr2 |-> "bar"]

AgentNames == {"a1", "a2", "a3", "a4", "a5"}

\* a1, a2: one filter, two labels, the default collection.  a3: the same
\* filter, another collection.  a4: other attribute values.  a5: another
\* schema name.
Agent(n) ==
    CASE n = "a1" -> LibSecretAgent("Cache", Some(CacheAttributes), "label one", NoneArg, None)
      [] n = "a2" -> LibSecretAgent("Cache", Some(CacheAttributes), "label two", NoneArg, None)
      [] n = "a3" -> LibSecretAgent("Cache", Some(CacheAttributes), "label one", NoneArg, "c1")
      [] n = "a4" -> LibSecretAgent("Cache", Some([attr1 |-> "foo", attr2 |-> "baz"]), "",
                                    Some([attr2 |-> INTEGER_T]), None)
      [] n = "a5" -> LibSecretAgent("Other", Some(CacheAttributes), "", NoneArg, None)

\* Whether a service call raises GLib.Error: never when the service is functional.
Raises == IF functional THEN {FALSE} ELSE BOOLEAN

\* The number of items agent n's filter selects in st.
Selected(n, st) ==
    Cardinality(Matching(st, Agent(n)._schema, Agent(n)._attributes))

\* A record of one call: matched is the number of items the agent's filter
\* selected when a clear() was made (0 for the other calls).
Call(op, n, data, raised, result, matched) ==
    [op |-> op, agent |-> n, data |-> data, raised |-> raised,
     result |-> result, matched |-> matched]

NoCall == Call("none", "none", None, FALSE, None, 0)

Save(n, x) ==
    /\ \E raised \in Raises :
        IF raised
        THEN /\ store' = store
             /\ last' = Call("save", n, x, TRUE, None, 0)
        ELSE /\ store' = save(Agent(n), x, store).store
             /\ last' = Call("save", n, x, FALSE, save(Agent(n), x, store).stored, 0)
    /\ prev' = last
    /\ UNCHANGED <<functional, trialVars, ctorVars>>

Load(n) ==
    /\ \E raised \in Raises :
        IF raised
        THEN last' = Call("load", n, None, TRUE, None, 0)
        ELSE \E r \in load(Agent(n), store) :
                last' = Call("load", n, None, FALSE, r, 0)
    /\ prev' = last
    /\ UNCHANGED <<store, functional, trialVars, ctorVars>>

Clear(n) ==
    /\ \E raised \in Raises :
        IF raised
        THEN /\ store' = store
             /\ last' = Call("clear", n, None, TRUE, None, Selected(n, store))
        ELSE /\ store' = clear(Agent(n), store).store
             /\ last' = Call("clear", n, None, FALSE, clear(Agent(n), store).removed,
                             Selected(n, store))
    /\ prev' = last
    /\ UNCHANGED <<functional, trialVars, ctorVars>>

---------------------------------------------------------------------------
(* trial_run: one step per call it makes.  A process may run it again. *)

NumProcs == 2

Procs == 1..NumProcs

TestAttributes == [attr1 |-> "foo", attr2 |-> "bar"]

\* agent = LibSecretAgent("Test Schema", {"attr1": "foo", "attr2": "bar"})
TrialAgent == LibSecretAgent("Test Schema", Some(TestAttributes), "", NoneArg, None)

payload == "Test Data"

message ==
    "libsecret did not perform properly. Please refer to https://github.com/AzureAD/microsoft-authentication-extensions-for-python/wiki/Encryption-on-Linux"

\* logger.exception(message): an ERROR record carrying the exception's stack.
ExceptionRecord == [level |-> "ERROR", exc_info |-> TRUE, msg |-> message]

\* logger.warning(message)
WarningRecord == [level |-> "WARNING", exc_info |-> FALSE, msg |-> message]

Running == [kind |-> "running", exc |-> "none"]

\* The items the test filter does not select.
OtherItems(st) == st \ Matching(st, TrialAgent._schema, TrialAgent._attributes)

TrialStart(p) ==
    /\ pc[p] \in {"idle", "returned", "raised"}
    /\ pc' = [pc EXCEPT ![p] = "save"]
    /\ caught' = [caught EXCEPT ![p] = "none"]
    /\ log' = [log EXCEPT ![p] = <<>>]
    /\ calls' = [calls EXCEPT ![p] = <<>>]
    /\ outcome' = [outcome EXCEPT ![p] = Running]
    /\ before' = [before EXCEPT ![p] = OtherItems(store)]
    /\ UNCHANGED <<store, functional, crudVars, ctorVars>>

\* agent.save(payload)
TrialSave(p) ==
    /\ pc[p] = "save"
    /\ calls' = [calls EXCEPT ![p] = Append(@, "save")]
    /\ \E raised \in Raises :
        IF raised
        THEN /\ store' = store
             /\ caught' = [caught EXCEPT ![p] = "GLib.Error"]
             /\ pc' = [pc EXCEPT ![p] = "log_exception"]
        ELSE /\ store' = save(TrialAgent, payload, store).store
             /\ caught' = caught
             /\ pc' = [pc EXCEPT ![p] = "load"]
    /\ UNCHANGED <<functional, log, outcome, before, crudVars, ctorVars>>

\* A slip: a payload that differs sends the probe back to save again.
TrialLoadRetry(p) ==
    /\ pc[p] = "load"
    /\ calls' = [calls EXCEPT ![p] = Append(@, "load")]
    /\ \E raised \in Raises :
        IF raised
        THEN /\ caught' = [caught EXCEPT ![p] = "GLib.Error"]
             /\ pc' = [pc EXCEPT ![p] = "log_exception"]
        ELSE \E r \in load(TrialAgent, store) :
                /\ caught' = caught
                /\ pc' = [pc EXCEPT ![p] = IF r = payload THEN "clear" ELSE "save"]
    /\ UNCHANGED <<store, functional, log, outcome, before, crudVars, ctorVars>>

\* assert agent.load() == payload
TrialLoad(p) ==
    /\ pc[p] = "load"
    /\ calls' = [calls EXCEPT ![p] = Append(@, "load")]
    /\ \E raised \in Raises :
        IF raised
        THEN /\ caught' = [caught EXCEPT ![p] = "GLib.Error"]
             /\ pc' = [pc EXCEPT ![p] = "log_exception"]
        ELSE \E r \in load(TrialAgent, store) :
                IF r = payload
                THEN /\ caught' = caught
                     /\ pc' = [pc EXCEPT ![p] = "clear"]
                ELSE /\ caught' = [caught EXCEPT ![p] = "AssertionError"]
                     /\ pc' = [pc EXCEPT ![p] = "log_exception"]
    /\ UNCHANGED <<store, functional, log, outcome, before, crudVars, ctorVars>>

\* agent.clear(), the last statement of the try block: the function returns.
TrialClear(p) ==
    /\ pc[p] = "clear"
    /\ calls' = [calls EXCEPT ![p] = Append(@, "clear")]
    /\ \E raised \in Raises :
        IF raised
        THEN /\ store' = store
             /\ caught' = [caught EXCEPT ![p] = "GLib.Error"]
             /\ pc' = [pc EXCEPT ![p] = "log_exception"]
             /\ outcome' = outcome
        ELSE /\ store' = clear(TrialAgent, store).store
             /\ caught' = caught
             /\ pc' = [pc EXCEPT ![p] = "returned"]
             /\ outcome' = [outcome EXCEPT ![p] = [kind |-> "returned", exc |-> "none"]]
    /\ UNCHANGED <<functional, log, before, crudVars, ctorVars>>

\* except (GLib.Error, AssertionError): logger.exception(message)
TrialLogException(p) ==
    /\ pc[p] = "log_exception"
    /\ log' = [log EXCEPT ![p] = Append(@, ExceptionRecord)]
    /\ pc' = [pc EXCEPT ![p] = "log_warning"]
    /\ UNCHANGED <<store, functional, caught, calls, outcome, before, crudVars, ctorVars>>

\* logger.warning(message)
TrialLogWarning(p) ==
    /\ pc[p] = "log_warning"
    /\ log' = [log EXCEPT ![p] = Append(@, WarningRecord)]
    /\ pc' = [pc EXCEPT ![p] = "raise"]
    /\ UNCHANGED <<store, functional, caught, calls, outcome, before, crudVars, ctorVars>>

\* A slip: the handler ends without the bare raise, and trial_run returns.
TrialRaiseSwallowed(p) ==
    /\ pc[p] = "raise"
    /\ outcome' = [outcome EXCEPT ![p] = [kind |-> "returned", exc |-> "none"]]
    /\ pc' = [pc EXCEPT ![p] = "returned"]
    /\ UNCHANGED <<store, functional, caught, log, calls, before, crudVars, ctorVars>>

\* raise: the exception being handled goes on to the caller.
TrialRaise(p) ==
    /\ pc[p] = "raise"
    /\ outcome' = [outcome EXCEPT ![p] = [kind |-> "raised", exc |-> caught[p]]]
    /\ pc' = [pc EXCEPT ![p] = "raised"]
    /\ UNCHANGED <<store, functional, caught, log, calls, before, crudVars, ctorVars>>

---------------------------------------------------------------------------
(* The constructor alone, on every argument of a bounded set. *)

AttrNames == {"attr1", "attr2"}

AttrValues == {"foo", "bar"}

\* The type mapping may name a key the attributes do not have.
TypeNames == AttrNames \cup {"extra"}

CtorArgs ==
    [schema_name     : {"Test Schema"},
     attributes      : {NoneArg} \cup {Some(d) : d \in Dicts(AttrNames, AttrValues)},
     attribute_types : {NoneArg} \cup {Some(t) : t \in Dicts(TypeNames, SchemaAttributeType)}]

NotBuilt == [constructed |-> FALSE]

NoArgs == [schema_name |-> "Test Schema", attributes |-> NoneArg,
           attribute_types |-> NoneArg]

Construct ==
    /\ ~built.constructed
    /\ built' = [constructed |-> TRUE,
                 self |-> LibSecretAgent(args.schema_name, args.attributes, "",
                                         args.attribute_types, None)]
    /\ UNCHANGED <<args, store, functional, crudVars, trialVars>>

---------------------------------------------------------------------------
(* Specifications *)

TrialIdle ==
    /\ pc = [p \in Procs |-> "idle"]
    /\ caught = [p \in Procs |-> "none"]
    /\ log = [p \in Procs |-> <<>>]
    /\ calls = [p \in Procs |-> <<>>]
    /\ outcome = [p \in Procs |-> Running]
    /\ before = [p \in Procs |-> {}]

CrudIdle == last = NoCall /\ prev = NoCall

CtorIdle == args = NoArgs /\ built = NotBuilt

\* Agents calling save, load and clear on an empty service.
InitAgent ==
    /\ store = {}
    /\ functional \in BOOLEAN
    /\ CrudIdle /\ TrialIdle /\ CtorIdle

NextAgent ==
    \/ \E n \in AgentNames, x \in Payloads : Save(n, x)
    \/ \E n \in AgentNames : Load(n)
    \/ \E n \in AgentNames : Clear(n)

SpecAgent == InitAgent /\ [][NextAgent]_vars

\* What the service may hold when a probe starts: other callers' items, and
\* the test item of a probe that did not get to clear it.
ForeignItems ==
    {Item(DefaultCollection, "Test Schema", [attr1 |-> "foo", attr2 |-> "baz"], "", "x"),
     Item(DefaultCollection, "Cache", TestAttributes, "label one", "y")}

StaleItems == {Item(DefaultCollection, "Test Schema", TestAttributes, "", payload)}

InitTrial ==
    /\ store \in SUBSET (ForeignItems \cup StaleItems)
    /\ functional \in BOOLEAN
    /\ CrudIdle /\ TrialIdle /\ CtorIdle

NextTrial ==
    \E p \in Procs :
        \/ TrialStart(p)
        \/ TrialSave(p)
        \/ TrialLoad(p)
        \/ TrialClear(p)
        \/ TrialLogException(p)
        \/ TrialLogWarning(p)
        \/ TrialRaise(p)

SpecTrial == InitTrial /\ [][NextTrial]_vars

InitCtor ==
    /\ args \in CtorArgs
    /\ built = NotBuilt
    /\ store = {}
    /\ functional = TRUE
    /\ CrudIdle /\ TrialIdle

NextCtor == Construct

SpecCtor == InitCtor /\ [][NextCtor]_vars

---------------------------------------------------------------------------
(* Properties of save / load / clear, under SpecAgent *)

Ok(c, op) == c.op = op /\ ~c.raised

SameFilter(n, m) ==
    /\ Agent(n)._schema.name = Agent(m)._schema.name
    /\ Agent(n)._attributes = Agent(m)._attributes

\* C1: when neither call raises, a save(x) directly followed by load() on the
\* same agent returns exactly x, for every agent and payload.
C1_SaveThenLoad ==
    (Ok(prev, "save") /\ Ok(last, "load") /\ last.agent = prev.agent)
        => last.result = prev.data

\* Every item under agent n's filter lives in the collection n saves to.
OneCollection(n) ==
    \A i \in Matching(store, Agent(n)._schema, Agent(n)._attributes) :
        i.collection = IF Agent(n)._collection = None THEN DefaultCollection
                       ELSE Agent(n)._collection

\* What holds of the round trip: save(x) then load() returns x when no other
\* collection holds an item under the same filter.
RoundTripInOneCollection ==
    (/\ Ok(prev, "save") /\ Ok(last, "load") /\ last.agent = prev.agent
     /\ OneCollection(last.agent))
        => last.result = prev.data

\* C4: clear() returns False when the agent's filter selects no stored item
\* and True when it selects at least one.
C4_ClearReportsRemoval ==
    Ok(last, "clear") => (last.result = (last.matched > 0))

\* A clear() that found nothing, then a clear() that removed something.
C4_Witness ==
    /\ Ok(prev, "clear") /\ prev.matched = 0 /\ prev.result = FALSE
    /\ Ok(last, "clear") /\ last.matched > 0 /\ last.result = TRUE

\* C5: a clear() directly followed by a load() with the same (schema,
\* attributes) filter returns None, whatever calls came before.
C5_ClearThenLoad ==
    (Ok(prev, "clear") /\ Ok(last, "load") /\ SameFilter(prev.agent, last.agent))
        => last.result = None

\* A clear() that removed items of two collections, then a load() finding nothing.
C5_Witness ==
    /\ Ok(prev, "clear") /\ prev.matched = 2
    /\ Ok(last, "load") /\ SameFilter(prev.agent, last.agent)
    /\ last.result = None

\* C6: two saves in a row by one agent, x then another y, leave exactly one
\* item under the agent's filter, holding y: load() can only return y, and
\* one clear() leaves nothing under the filter.
C6_SaveOverwrites ==
    (/\ Ok(prev, "save") /\ Ok(last, "save")
     /\ prev.agent = last.agent
     /\ prev.data # last.data)
        => LET self == Agent(last.agent)
               under == Matching(store, self._schema, self._attributes)
           IN  /\ Cardinality(under) = 1
               /\ \A i \in under : i.secret = last.data
               /\ load(self, store) = {last.data}
               /\ Matching(clear(self, store).store, self._schema,
                           self._attributes) = {}

\* Two agents with the same schema name and attributes, both on the default
\* collection, with different labels.
Interchangeable(n, m) ==
    /\ SameFilter(n, m)
    /\ Agent(n)._collection = None /\ Agent(m)._collection = None
    /\ Agent(n)._label # Agent(m)._label

\* C7: agents that differ only in their label (collection None) are
\* interchangeable: in every state load() may return the same values on both
\* and clear() has the same effect on both, and a clear() on one directly
\* after a save on the other returns True and leaves nothing under the filter.
C7_LabelNotInFilter ==
    \A n, m \in AgentNames :
        Interchangeable(n, m) =>
            /\ load(Agent(n), store) = load(Agent(m), store)
            /\ clear(Agent(n), store) = clear(Agent(m), store)
            /\ (Ok(prev, "save") /\ prev.agent = n /\ Ok(last, "clear") /\ last.agent = m)
                => /\ last.result = TRUE
                   /\ Selected(n, store) = 0
            /\ (Ok(prev, "save") /\ prev.agent = n /\ Ok(last, "load") /\ last.agent = m)
                => last.result \in load(Agent(n), store)

\* One agent saved, the other one cleared it.
C7_Witness ==
    \E n, m \in AgentNames :
        /\ Interchangeable(n, m)
        /\ Ok(prev, "save") /\ prev.agent = n
        /\ Ok(last, "clear") /\ last.agent = m /\ last.result = TRUE

---------------------------------------------------------------------------
(* Properties of trial_run, under SpecTrial *)

Handling == {"log_exception", "log_warning", "raise"}

IsPrefix(s, t) == Len(s) <= Len(t) /\ \A i \in 1..Len(s) : s[i] = t[i]

\* C2: once a service call of the probe raised, or the loaded payload was not
\* "Test Data", the probe logs the detailed record and then the warning, then
\* re-raises the error it caught; it does not return normally.
C2_LogTwiceAndReraise ==
    \A p \in Procs :
        /\ caught[p] # "none" => pc[p] \in Handling \cup {"raised"}
        /\ pc[p] = "log_warning" => log[p] = <<ExceptionRecord>>
        /\ pc[p] \in {"raise", "raised"} => log[p] = <<ExceptionRecord, WarningRecord>>
        /\ pc[p] = "raised" =>
            /\ caught[p] \in {"GLib.Error", "AssertionError"}
            /\ outcome[p] = [kind |-> "raised", exc |-> caught[p]]
        /\ outcome[p].kind = "returned" => caught[p] = "none" /\ log[p] = <<>>

\* One probe re-raised a payload mismatch, another a service error in clear().
C2_Witness ==
    \E p, q \in Procs :
        /\ pc[p] = "raised" /\ caught[p] = "AssertionError"
        /\ pc[q] = "raised" /\ caught[q] = "GLib.Error"
        /\ calls[q] = <<"save", "load", "clear">>

\* C8: the probe calls save, load, clear once each in that order and never
\* again: a failed save is its only call, a failed or mismatching load is
\* followed by no clear, and the failure reaches the caller.
C8_LinearNoRetry ==
    \A p \in Procs :
        /\ IsPrefix(calls[p], <<"save", "load", "clear">>)
        /\ pc[p] = "save" => calls[p] = <<>>
        /\ pc[p] = "load" => calls[p] = <<"save">>
        /\ pc[p] = "clear" => calls[p] = <<"save", "load">>
        /\ caught[p] # "none" => pc[p] \notin {"save", "load", "clear", "returned"}
        /\ pc[p] = "returned" => calls[p] = <<"save", "load", "clear">>
        /\ pc[p] = "raised" => outcome[p].kind = "raised" /\ outcome[p].exc # "none"

\* A probe whose load did not return the payload: no clear, and it raised.
C8_Witness ==
    \E p, q \in Procs :
        /\ pc[p] = "raised" /\ caught[p] = "AssertionError"
        /\ calls[p] = <<"save", "load">>
        /\ pc[q] = "raised" /\ calls[q] = <<"save">>

\* C9: at the step in which trial_run returns normally, no stored item
\* matches the test filter, and the items under every other filter are those
\* of the moment the probe started.
C9_ProbeLeavesNothing ==
    [][\A p \in Procs :
          (pc[p] # "returned" /\ pc'[p] = "returned") =>
              /\ Matching(store', TrialAgent._schema, TrialAgent._attributes) = {}
              /\ OtherItems(store') = before[p]]_vars

\* A probe returned on a service holding other callers' items.
C9_Witness ==
    \E p \in Procs :
        /\ pc[p] = "returned"
        /\ before[p] = ForeignItems
        /\ store = ForeignItems

\* C10: while the service never raises, no run of trial_run raises, however
\* the steps of concurrent runs interleave.
C10_FunctionalNeverRaises ==
    functional => \A p \in Procs : caught[p] = "none" /\ pc[p] # "raised"

---------------------------------------------------------------------------
(* Property of the constructor, under SpecCtor *)

\* C3: the schema's type mapping has exactly the keys of the attributes,
\* with the type mapping's value where it has the key and STRING elsewhere;
\* keys of the type mapping that are no attribute do not appear.
C3_SchemaTypesFollowAttributes ==
    built.constructed =>
        LET A == OrEmptyDict(args.attributes)
            T == OrEmptyDict(args.attribute_types)
            types == built.self._schema.types
        IN  /\ DOMAIN types = DOMAIN A
            /\ \A k \in DOMAIN A :
                  types[k] = IF k \in DOMAIN T THEN T[k] ELSE STRING_T
            /\ \A k \in DOMAIN T : k \notin DOMAIN A => k \notin DOMAIN types
            /\ built.self._attributes = A

\* A partial type mapping with a key that is no attribute.
C3_Witness ==
    /\ built.constructed
    /\ ~args.attributes.isNone /\ DOMAIN args.attributes.val = {"attr1", "attr2"}
    /\ ~args.attribute_types.isNone
    /\ DOMAIN args.attribute_types.val = {"attr1", "extra"}
    /\ built.self._schema.types = [attr1 |-> INTEGER_T, attr2 |-> STRING_T]

====
